---- MODULE Spec2Model ----
(***************************************************************************)
(* A model of tn-forms-react: the FormProvider state container of          *)
(* src/src/form-provider.tsx (the useState cell, the memoised callbacks,   *)
(* the published context value), the useTnForm accessor, and the           *)
(* type-level function ConvertToFieldTuple of src/src/types.ts.            *)
(*                                                                         *)
(* An object identity (of a form, a closure, the context value, the object *)
(* bound to formLevelValidators) is a natural; a new object takes the      *)
(* least identity no live reference of its kind holds.  The form library   *)
(* (@thinknimble/tn-forms) is modelled by the section "form library".      *)
(***************************************************************************)
EXTENDS Integers, Sequences, FiniteSets, TLC

\* ------------------------------------------------------------------ bounds
\* The form array of a form has MaxGroups groups.
MaxGroups == 2
\* setFields / setFormArrayGroupFields are called with 1..MaxPairs pairs.
MaxPairs == 2
\* ConvertToFieldTuple is applied to tuples of at most MaxTuple elements.
MaxTuple == 3

\* ------------------------------------------------------------ form library
\* Field values: the empty string and a non-empty one.
Values == {"", "a"}

\* Names of the top-level fields of the form, and of the fields of a group
\* of its form array.
FieldNames == {"password", "confirm"}
GroupFieldNames == {"name"}
AllNames == FieldNames \cup GroupFieldNames

OtherField(n) == IF n = "password" THEN "confirm" ELSE "password"

\* A field as created by the form class: not validated, not touched.
NewField(v) == [value |-> v, isValid |-> TRUE, isTouched |-> FALSE]

\* The form classes a provider may be given: the default values of the two
\* top-level fields.
FormClasses ==
    { [password |-> "", confirm |-> ""], [password |-> "a", confirm |-> ""] }

\* formClass.create(): a new form instance of identity id.  flv is the set of
\* field names under which a form-level validator is attached.
Create(cls, id) ==
    [ id     |-> id,
      field  |-> [n \in FieldNames |-> NewField(cls[n])],
      groups |-> [g \in 0..(MaxGroups - 1) |->
                      [n \in GroupFieldNames |-> NewField("")]],
      flv    |-> {} ]

\* The field-level validators: password and name are required.
FieldLevel(n, v) == n \in {"password", "name"} => v # ""

\* What field.validate() derives for top-level field n of form F holding
\* value v: the field-level validator and, when a form-level validator is
\* attached under n, that n matches the other field.
FieldVerdict(F, n, v) ==
    /\ FieldLevel(n, v)
    /\ (n \in F.flv => v = F.field[OtherField(n)].value)

\* field.validate() on a top-level field.
ValidateField(F, n) ==
    [F EXCEPT !.field[n].isValid = FieldVerdict(F, n, F.field[n].value)]

\* field.validate() on field n of group g.
ValidateGroupField(F, g, n) ==
    [F EXCEPT !.groups[g][n].isValid = FieldLevel(n, F.groups[g][n].value)]

\* form.validate(): every field of the form and of its groups.
FormValidate(F) ==
    [F EXCEPT
       !.field = [n \in FieldNames |->
                    [F.field[n] EXCEPT
                       !.isValid = FieldVerdict(F, n, F.field[n].value)]],
       !.groups = [g \in DOMAIN F.groups |->
                    [n \in GroupFieldNames |->
                       [F.groups[g][n] EXCEPT
                          !.isValid = FieldLevel(n, F.groups[g][n].value)]]]]

\* form.replicate(): a fresh identity with the same field values and flags;
\* form-level validators are not carried.
Replicate(F, id) == [F EXCEPT !.id = id, !.flv = {}]

\* form.addFormLevelValidator(fieldName, validator)
AddFormLevelValidator(F, n) == [F EXCEPT !.flv = @ \cup {n}]

\* formArray.replicate().groups: a new group sequence holding copies of the
\* groups of F.
ReplicateGroups(F) == [g \in DOMAIN F.groups |-> F.groups[g]]

\* ----------------------------------------------------------- provider state
CallbackNames ==
    { "createFormFieldChangeHandler", "createFormFieldChangeHandlerForFormArrayGroup",
      "setFormArrayGroupField", "setFields", "setFormArrayGroupFields", "validate" }

\* const defaultValue: the value the context is created with.
defaultValue ==
    [ kind |-> "object", ref |-> 0, form |-> 0, overrideForm |-> 0,
      cb |-> [c \in CallbackNames |-> 0] ]

VARIABLES
    mounted,    \* a FormProvider is mounted
    props,      \* its formLevelValidators prop: given or omitted, and the names in it
    flvRef,     \* identity of the object bound to formLevelValidators by the last render
    form,       \* the useState cell: the current form
    hooks,      \* the useCallback cell of customReplicate, and the callbacks' dependency
    value,      \* the context value published by the last render
    last,       \* the last operation: its name, arguments, result and effect counts
    tupleIn,    \* ConvertToFieldTuple: the tuple type it is applied to
    tupleOut    \* ConvertToFieldTuple: its result

vars == <<mounted, props, flvRef, form, hooks, value, last, tupleIn, tupleOut>>

\* The least identity that no member of live holds.
Fresh(live) ==
    CHOOSE n \in 1..(Cardinality(live) + 1) :
        /\ n \notin live
        /\ \A m \in 1..(n - 1) : m \in live

\* A JavaScript boolean result.
Bool(b) == IF b THEN "true" ELSE "false"

\* A field object handed to an operation: a top-level field of the published
\* form (g = -1) or the field of group g of its form array.
TopRef(n) == [g |-> -1, name |-> n]
GroupRef(g, n) == [g |-> g, name |-> n]

\* --------------------------------------------------- the provider's closures
\* The run of one operation: cell is the useState cell, live the form object
\* the closure holds (mutated in place), made the local newForm, fresh the
\* identity of the next form created, and setForms / replicas count the calls
\* of setForm and of form.replicate().
Begin(F, validators, fresh) ==
    [ cell |-> F, live |-> F, made |-> F, validators |-> validators,
      fresh |-> fresh, setForms |-> 0, replicas |-> 0, ret |-> "undefined" ]

\* setForm(F)
setForm(c, F) == [c EXCEPT !.cell = F, !.setForms = @ + 1]

\* addFormLevelValidatorsMutate(form, validators): one addFormLevelValidator
\* per entry of validators.
RECURSIVE addFormLevelValidatorsMutate(_, _)
addFormLevelValidatorsMutate(F, validators) ==
    IF validators = {} THEN F
    ELSE LET n == CHOOSE x \in validators : TRUE
         IN addFormLevelValidatorsMutate(AddFormLevelValidator(F, n),
                                         validators \ {n})

\* customReplicate without the reattachment of the form-level validators.
customReplicate_Plain(c) ==
    [c EXCEPT !.made = Replicate(c.live, c.fresh), !.replicas = @ + 1]

\* customReplicate(): newForm = form.replicate() with the provider's
\* form-level validators attached.
customReplicate(c) ==
    [c EXCEPT !.made = addFormLevelValidatorsMutate(Replicate(c.live, c.fresh),
                                                    c.validators),
              !.replicas = @ + 1]

\* The three statements with validate() run before the value is written.
MutateField_ValidateFirst(F, n, v) ==
    LET validated == ValidateField(F, n)
        written   == [validated EXCEPT !.field[n].value = v]
    IN [written EXCEPT !.field[n].isTouched = TRUE]

\* field.value = value; field.validate(); field.isTouched = true
MutateField(F, n, v) ==
    LET written   == [F EXCEPT !.field[n].value = v]
        validated == ValidateField(written, n)
    IN [validated EXCEPT !.field[n].isTouched = TRUE]

\* groupField.value = value; groupField.validate(); groupField.isTouched = true
MutateGroupField(F, g, n, v) ==
    LET written   == [F EXCEPT !.groups[g][n].value = v]
        validated == ValidateGroupField(written, g, n)
    IN [validated EXCEPT !.groups[g][n].isTouched = TRUE]

\* The same three statements on a field object handed in by the caller.
MutateRef(F, ref, v) ==
    IF ref.g = -1 THEN MutateField(F, ref.name, v)
    ELSE MutateGroupField(F, ref.g, ref.name, v)

\* formArray.groups[groupIndex] is an object (not undefined).
HasGroup(F, idx) == idx \in DOMAIN F.groups

\* group.field[field.name] is an object (not undefined).
HasGroupField(n) == n \in GroupFieldNames

\* The handler publishing the form it mutated, not a replica of it.
createFormFieldChangeHandler_InPlace(c, n, v) ==
    LET c1 == [c EXCEPT !.live = MutateField(c.live, n, v)]
        c3 == setForm(c1, c1.live)
    IN [c3 EXCEPT !.ret = Bool(c1.live.field[n].isValid)]

\* The handler returned by createFormFieldChangeHandler(field), called with v.
createFormFieldChangeHandler(c, n, v) ==
    LET c1 == [c EXCEPT !.live = MutateField(c.live, n, v)]
        c2 == customReplicate(c1)
        c3 == setForm(c2, c2.made)
    IN [c3 EXCEPT !.ret = Bool(c1.live.field[n].isValid)]

\* The group handler replicating and publishing before it returns on a miss.
createFormFieldChangeHandlerForFormArrayGroup_PublishOnMiss(c, idx, n, v) ==
    IF ~HasGroup(c.live, idx) \/ ~HasGroupField(n)
    THEN LET c2 == customReplicate(c)
         IN [setForm(c2, c2.made) EXCEPT !.ret = Bool(FALSE)]
    ELSE LET c1 == [c EXCEPT !.live = MutateGroupField(c.live, idx, n, v)]
             c2 == customReplicate(c1)
             c3 == [c2 EXCEPT !.made.groups = ReplicateGroups(c1.live)]
             c4 == setForm(c3, c3.made)
         IN [c4 EXCEPT !.ret = Bool(c1.live.groups[idx][n].isValid)]

\* The handler returned by createFormFieldChangeHandlerForFormArrayGroup(
\* formArray, groupIndex, field), called with v.
createFormFieldChangeHandlerForFormArrayGroup(c, idx, n, v) ==
    IF ~HasGroup(c.live, idx) THEN [c EXCEPT !.ret = Bool(FALSE)]
    ELSE IF ~HasGroupField(n) THEN [c EXCEPT !.ret = Bool(FALSE)]
    ELSE LET c1 == [c EXCEPT !.live = MutateGroupField(c.live, idx, n, v)]
             c2 == customReplicate(c1)
             c3 == [c2 EXCEPT !.made.groups = ReplicateGroups(c1.live)]
             c4 == setForm(c3, c3.made)
         IN [c4 EXCEPT !.ret = Bool(c1.live.groups[idx][n].isValid)]

\* setFormArrayGroupField(formArray, groupIndex, field, value)
setFormArrayGroupField(c, idx, n, v) ==
    IF ~HasGroup(c.live, idx) THEN c
    ELSE IF ~HasGroupField(n) THEN c
    ELSE LET c1 == [c EXCEPT !.live = MutateGroupField(c.live, idx, n, v)]
             c2 == customReplicate(c1)
         IN setForm(c2, c2.made)

\* fieldValueTuples.forEach(([field, value]) => { ... }) on the live form.
RECURSIVE ForEachPair(_, _)
ForEachPair(F, pairs) ==
    IF pairs = <<>> THEN F
    ELSE ForEachPair(MutateRef(F, Head(pairs).ref, Head(pairs).v), Tail(pairs))

\* setFields replicating and publishing once per pair.
RECURSIVE setFields_PerPair(_, _)
setFields_PerPair(c, pairs) ==
    IF pairs = <<>> THEN c
    ELSE LET c1 == [c EXCEPT !.live = MutateRef(c.live, Head(pairs).ref, Head(pairs).v)]
             c2 == customReplicate(c1)
         IN setFields_PerPair(setForm(c2, c2.made), Tail(pairs))

\* setFields(fieldValueTuples)
setFields(c, pairs) ==
    LET c1 == [c EXCEPT !.live = ForEachPair(c.live, pairs)]
        c2 == customReplicate(c1)
    IN setForm(c2, c2.made)

\* setFormArrayGroupFields(formArrayField, groupIndex, fieldValueTuples)
setFormArrayGroupFields(c, idx, pairs) ==
    IF ~HasGroup(c.live, idx) THEN c
    ELSE LET c1 == [c EXCEPT !.live = ForEachPair(c.live, pairs)]
             c2 == customReplicate(c1)
         IN setForm(c2, c2.made)

\* validate()
validate(c) ==
    LET c1 == [c EXCEPT !.live = FormValidate(c.live)]
        c2 == customReplicate(c1)
    IN setForm(c2, c2.made)

\* overrideForm(newForm)
overrideForm(c, F) == setForm(c, F)

\* ------------------------------------------------------------------ useTnForm
\* !unknownCtx
Falsy(ctx) == ctx.kind \in {"null", "undefined"}

\* useContext(FormContext): the nearest provider's value, or the default
\* value the context was created with.
useContext == IF mounted THEN value ELSE defaultValue

\* useTnForm(): "throw", or the identity of the bundle it returns.
useTnForm ==
    LET unknownCtx == useContext
    IN IF Falsy(unknownCtx) THEN [ret |-> "throw", bundle |-> -1]
       ELSE [ret |-> "returned", bundle |-> unknownCtx.ref]

\* ------------------------------------------------------------------- renders
\* useCallback(fn, deps) / useMemo(fn, deps): the cell keeps its identity
\* when every dependency is identical to the previous render's, and is a new
\* object otherwise.
Memo(oldRef, oldDeps, newDeps) ==
    IF newDeps = oldDeps THEN oldRef ELSE Fresh({oldRef})

\* The object bound to formLevelValidators in a render: the object the parent
\* passes, or the parameter default {} this render evaluates.
BindValidators(given, passed, old) == IF given THEN passed ELSE Fresh({old})

\* One run of the FormProvider function after the first, F the useState cell
\* and flv the object bound to formLevelValidators: the hook cells and the
\* value it publishes.
RenderProvider(F, h, old, flv) ==
    LET crDeps == <<F.id, flv>>
        crRef  == Memo(h.crRef, h.crDeps, crDeps)
        cb     == [c \in CallbackNames |->
                     IF c = "validate"
                     THEN Memo(old.cb[c], <<h.cbDeps, old.form>>, <<crRef, F.id>>)
                     ELSE Memo(old.cb[c], <<h.cbDeps>>, <<crRef>>)]
        ov     == Memo(old.overrideForm, <<>>, <<>>)
        ref    == Memo(old.ref, <<old.cb, old.form, old.overrideForm>>,
                       <<cb, F.id, ov>>)
    IN [ hooks |-> [crRef |-> crRef, crDeps |-> crDeps, cbDeps |-> crRef],
         value |-> [kind |-> "object", ref |-> ref, form |-> F.id,
                    overrideForm |-> ov, cb |-> cb] ]

\* The first render: every cell is created.
FirstRender(F, flv) ==
    [ hooks |-> [crRef |-> 1, crDeps |-> <<F.id, flv>>, cbDeps |-> 1],
      value |-> [kind |-> "object", ref |-> 1, form |-> F.id,
                 overrideForm |-> 1, cb |-> [c \in CallbackNames |-> 1]] ]

\* -------------------------------------------------------- ConvertToFieldTuple
\* The types a field holds and a value has: string, number, and a literal
\* type of each (what `as const` gives a value).
Types == {"string", "number", "'a'", "0"}
FieldTypes == {"string", "number"}

\* V extends S
Assignable(V, S) ==
    \/ V = S
    \/ V = "'a'" /\ S = "string"
    \/ V = "0" /\ S = "number"

\* An element of the tuple type T: a tuple type of `arity` components, the
\* first IFormField<of> (isField) or the plain type `of`, the second `second`.
Elements ==
    { [arity |-> 2, isField |-> TRUE, of |-> f, second |-> v] :
          f \in FieldTypes, v \in Types }
    \cup { [arity |-> 2, isField |-> FALSE, of |-> "string", second |-> "string"],
           [arity |-> 3, isField |-> TRUE, of |-> "string", second |-> "string"],
           [arity |-> 1, isField |-> TRUE, of |-> "number", second |-> "number"] }

\* never, and a tuple type of validated pairs.
Never == [never |-> TRUE, pairs |-> <<>>]
Tuple(pairs) == [never |-> FALSE, pairs |-> pairs]

\* FirstTuple extends readonly [IFormField<infer TValue>, infer TValueCompare]
InfersFieldPair(e) == e.arity = 2 /\ e.isField

\* The second check left out: any value type passes.
ExtendsFieldPair_Any(e) == TRUE

\* FirstTuple extends readonly [IFormField<TValue>, TValue]
ExtendsFieldPair(e) == Assignable(e.second, e.of)

\* ConvertToFieldTuple<T, TResult>
RECURSIVE ConvertToFieldTuple(_, _)
ConvertToFieldTuple(T, TResult) ==
    IF T # <<>>
    THEN LET FirstTuple == Head(T)
             Rest == Tail(T)
         IN IF InfersFieldPair(FirstTuple)
            THEN IF ExtendsFieldPair(FirstTuple)
                 THEN ConvertToFieldTuple(
                          Rest,
                          Append(TResult, [field |-> FirstTuple.of,
                                           value |-> FirstTuple.second]))
                 ELSE Never
            ELSE Never
    ELSE IF Len(TResult) = 0 THEN Never ELSE Tuple(TResult)

NotApplied == [applied |-> FALSE, result |-> Never]

\* -------------------------------------------------------------------- actions
\* The state cell and hook cells before the provider's first render.
NoForm == [ id |-> 0, field |-> [n \in FieldNames |-> NewField("")],
            groups |-> <<>>, flv |-> {} ]
NoHooks == [ crRef |-> 0, crDeps |-> <<0, 0>>, cbDeps |-> 0 ]

\* What an operation leaves in last: its name, the group index it was given,
\* the value it was given last for each field name ("-": none), the number
\* of pairs, its result, and how often it called setForm and form.replicate().
NoWrites == [n \in AllNames |-> "-"]

RECURSIVE LastWrite(_)
LastWrite(pairs) ==
    IF pairs = <<>> THEN NoWrites
    ELSE LET p == pairs[Len(pairs)]
             w == LastWrite(SubSeq(pairs, 1, Len(pairs) - 1))
         IN [w EXCEPT ![p.ref.name] = p.v]

NoCall(op) ==
    [ op |-> op, idx |-> -1, writes |-> NoWrites, n |-> 0, ret |-> "undefined",
      setForms |-> 0, replicas |-> 0, bundle |-> -1 ]

Call(op, idx, pairs, c) ==
    [ NoCall(op) EXCEPT !.idx = idx, !.writes = LastWrite(pairs), !.n = Len(pairs),
                        !.ret = c.ret, !.setForms = c.setForms,
                        !.replicas = c.replicas ]

Init ==
    /\ mounted = FALSE
    /\ props = [given |-> FALSE, flv |-> {}]
    /\ flvRef = 0
    /\ form = NoForm
    /\ hooks = NoHooks
    /\ value = defaultValue
    /\ last = NoCall("none")
    /\ tupleIn = <<>>
    /\ tupleOut = NotApplied

\* <FormProvider formClass={cls} formLevelValidators={...}> is mounted and
\* renders for the first time.
Mount(cls, given, flv) ==
    /\ ~mounted
    /\ (~given => flv = {})
    /\ LET F == Create(cls, 1)
           r == FirstRender(F, 1)
       IN /\ form' = F
          /\ hooks' = r.hooks
          /\ value' = r.value
          /\ flvRef' = 1
    /\ mounted' = TRUE
    /\ props' = [given |-> given, flv |-> flv]
    /\ last' = NoCall("mount")
    /\ UNCHANGED <<tupleIn, tupleOut>>

\* The provider renders again because its parent did.  sameProps: the parent
\* passes the formLevelValidators object it passed before (when it passes one).
Render(sameProps) ==
    /\ mounted
    /\ (~props.given => sameProps)
    /\ LET passed == IF sameProps THEN flvRef ELSE Fresh({flvRef})
           flv == BindValidators(props.given, passed, flvRef)
           r == RenderProvider(form, hooks, value, flv)
       IN /\ flvRef' = flv
          /\ hooks' = r.hooks
          /\ value' = r.value
    /\ last' = NoCall("render")
    /\ UNCHANGED <<mounted, props, form, tupleIn, tupleOut>>

\* A descendant calls an operation of the published bundle with fields of the
\* published form; the closure holds that form and the provider's validators.
\* FreshForm is the identity of the form object the call creates.
FreshForm == Fresh({form.id, value.form, hooks.crDeps[1]})

Run == Begin(form, props.flv, FreshForm)

\* The operation has returned: the state cell is c.cell, and the provider
\* renders again when setForm was given another object than the cell held.
Commit(op, idx, pairs, c) ==
    /\ mounted
    /\ form' = c.cell
    /\ IF c.cell.id # form.id
       THEN LET flv == BindValidators(props.given, flvRef, flvRef)
                r == RenderProvider(c.cell, hooks, value, flv)
            IN /\ flvRef' = flv
               /\ hooks' = r.hooks
               /\ value' = r.value
       ELSE UNCHANGED <<flvRef, hooks, value>>
    /\ last' = Call(op, idx, pairs, c)
    /\ UNCHANGED <<mounted, props, tupleIn, tupleOut>>

CallChangeHandler(n, v) ==
    Commit("createFormFieldChangeHandler", -1, <<[ref |-> TopRef(n), v |-> v]>>,
           createFormFieldChangeHandler(Run, n, v))

CallGroupChangeHandler(idx, n, v) ==
    Commit("createFormFieldChangeHandlerForFormArrayGroup", idx,
           <<[ref |-> GroupRef(idx, n), v |-> v]>>,
           createFormFieldChangeHandlerForFormArrayGroup(Run, idx, n, v))

CallSetFormArrayGroupField(idx, n, v) ==
    Commit("setFormArrayGroupField", idx, <<[ref |-> GroupRef(idx, n), v |-> v]>>,
           setFormArrayGroupField(Run, idx, n, v))

CallSetFields(pairs) ==
    Commit("setFields", -1, pairs, setFields(Run, pairs))

CallSetFormArrayGroupFields(idx, pairs) ==
    Commit("setFormArrayGroupFields", idx, pairs,
           setFormArrayGroupFields(Run, idx, pairs))

CallValidate == Commit("validate", -1, <<>>, validate(Run))

\* overrideForm with a form the caller constructed.
CallOverrideFormNew(cls) ==
    Commit("overrideForm", -1, <<>>, overrideForm(Run, Create(cls, FreshForm)))

\* overrideForm with the published form itself.
CallOverrideFormSame == Commit("overrideForm", -1, <<>>, overrideForm(Run, form))

CallUseTnForm ==
    /\ last' = [NoCall("useTnForm") EXCEPT !.ret = useTnForm.ret,
                                            !.bundle = useTnForm.bundle]
    /\ UNCHANGED <<mounted, props, flvRef, form, hooks, value, tupleIn, tupleOut>>

\* The argument lists of the bulk setters: 1..MaxPairs pairs [field, value],
\* the fields taken from refs and the values from vals.
PairLists(refs, vals) ==
    UNION { [1..k -> [ref : refs, v : vals]] : k \in 1..MaxPairs }

TopRefs == { TopRef(n) : n \in FieldNames }
GroupRefs(g) == { GroupRef(g, n) : n \in GroupFieldNames }

\* Group indices a caller passes: in range, or one past the end.
Indices == 0..MaxGroups

\* Names of the field objects a caller passes to a group-scoped operation: a
\* field of a group, or a top-level field (no group has a field of its name).
PassedNames == GroupFieldNames \cup {"password"}

\* The formLevelValidators a provider is given.
ValidatorSets == { {"confirm"}, FieldNames }

MountAny ==
    \/ \E cls \in FormClasses : Mount(cls, FALSE, {})
    \/ \E cls \in FormClasses, flv \in ValidatorSets : Mount(cls, TRUE, flv)

RenderAny == \E sameProps \in BOOLEAN : Render(sameProps)

\* The operations on top-level fields, setFields given values of vals.
FieldOps(vals) ==
    \/ \E n \in FieldNames, v \in Values : CallChangeHandler(n, v)
    \/ \E pairs \in PairLists(TopRefs, vals) : CallSetFields(pairs)
    \/ CallValidate
    \/ \E cls \in FormClasses : CallOverrideFormNew(cls)
    \/ CallOverrideFormSame

\* The group-scoped operations, given values of vals.
GroupOps(vals) ==
    \/ \E idx \in Indices, n \in PassedNames, v \in vals :
          CallGroupChangeHandler(idx, n, v)
    \/ \E idx \in Indices, n \in PassedNames, v \in vals :
          CallSetFormArrayGroupField(idx, n, v)
    \/ \E idx \in Indices, src \in DOMAIN form.groups :
          \E pairs \in PairLists(GroupRefs(src), vals) :
             CallSetFormArrayGroupFields(idx, pairs)

\* Every operation; setFields and the group-scoped ones are given the
\* non-empty value.
Next ==
    MountAny \/ RenderAny \/ FieldOps({"a"}) \/ GroupOps({"a"}) \/ CallUseTnForm
Spec == Init /\ [][Next]_vars

\* The provider with the operations on top-level fields, given every value.
NextFields == MountAny \/ RenderAny \/ FieldOps(Values) \/ CallUseTnForm
SpecFields == Init /\ [][NextFields]_vars

\* The provider with the group-scoped operations, given every value.
NextGroups == MountAny \/ RenderAny \/ GroupOps(Values)
SpecGroups == Init /\ [][NextGroups]_vars

\* ConvertToFieldTuple applied to a tuple type of at most MaxTuple elements.
TupleTypes == UNION { [1..k -> Elements] : k \in 0..MaxTuple }

InitTypes ==
    /\ mounted = FALSE
    /\ props = [given |-> FALSE, flv |-> {}]
    /\ flvRef = 0
    /\ form = NoForm
    /\ hooks = NoHooks
    /\ value = defaultValue
    /\ last = NoCall("none")
    /\ tupleIn \in TupleTypes
    /\ tupleOut = NotApplied

Convert ==
    /\ ~tupleOut.applied
    /\ tupleOut' = [applied |-> TRUE, result |-> ConvertToFieldTuple(tupleIn, <<>>)]
    /\ UNCHANGED <<mounted, props, flvRef, form, hooks, value, last, tupleIn>>

SpecTypes == InitTypes /\ [][Convert]_vars

\* ------------------------------------------------------------------- claims
SingleGroupOps ==
    {"createFormFieldChangeHandlerForFormArrayGroup", "setFormArrayGroupField"}
GroupOpNames == SingleGroupOps \cup {"setFormArrayGroupFields"}
ReplicatingOps ==
    GroupOpNames \cup {"createFormFieldChangeHandler", "setFields", "validate"}

\* The field names an operation was given a value for.
Written(l) == { n \in AllNames : l.writes[n] # "-" }

\* A group-scoped call that addresses no group, or no field of the group.
Miss(l) ==
    /\ l.op \in GroupOpNames
    /\ \/ l.idx \notin 0..(MaxGroups - 1)
       \/ l.op \in SingleGroupOps /\ ~(Written(l) \subseteq GroupFieldNames)

\* C1: after each call of a handler from createFormFieldChangeHandler the
\* published form is another object than the one published before, and its
\* field values are those before the call with the handler's field set to the
\* value given (so, by induction, the mutations so far applied in order).
C1_FreshFormEachMutation ==
    [][ last'.op = "createFormFieldChangeHandler" =>
          /\ value'.form # value.form
          /\ value'.form = form'.id
          /\ \A n \in FieldNames :
                form'.field[n].value =
                   IF n \in Written(last') THEN last'.writes[n]
                   ELSE form.field[n].value ]_vars

\* C1 witness: two handler calls have been applied, the last on confirm.
C1_Witness ==
    /\ last.op = "createFormFieldChangeHandler"
    /\ last.writes["confirm"] = "a"
    /\ form.field["confirm"].value = "a"
    /\ form.field["password"].isTouched
    /\ form.field["password"].value = "a"

\* C2: no operation calls setForm or form.replicate() more than once; every
\* operation that does not miss calls setForm exactly once, and every one of
\* them but overrideForm replicates exactly once, whatever the number of pairs.
C2_OnePublishPerCall ==
    last.op \in ReplicatingOps \cup {"overrideForm"} =>
        /\ last.setForms <= 1
        /\ last.replicas <= 1
        /\ (~Miss(last) => last.setForms = 1)
        /\ (~Miss(last) /\ last.op \in ReplicatingOps => last.replicas = 1)

\* C2 witness: setFields with MaxPairs pairs (two at least) published once.
C2_Witness ==
    /\ last.op = "setFields"
    /\ last.n = MaxPairs
    /\ last.n >= 2
    /\ last.setForms = 1
    /\ last.replicas = 1

\* C3: a group-scoped call that misses changes neither the form nor the
\* published value, replicates nothing and publishes nothing; the handler
\* returns false and the direct setters undefined.
C3_MissIsNoOp ==
    [][ Miss(last') =>
          /\ form' = form
          /\ value' = value
          /\ last'.setForms = 0
          /\ last'.replicas = 0
          /\ last'.ret = IF last'.op = "createFormFieldChangeHandlerForFormArrayGroup"
                         THEN "false" ELSE "undefined" ]_vars

\* C3 witness: the handler has missed on a field name no group has, on a
\* form whose groups hold values.
C3_Witness ==
    /\ last.op = "createFormFieldChangeHandlerForFormArrayGroup"
    /\ Miss(last)
    /\ last.idx = 0
    /\ last.writes["password"] # "-"
    /\ last.ret = "false"
    /\ form.groups[0]["name"].value = "a"

\* C4: useTnForm throws where no provider is mounted, and returns the
\* provider's bundle where one is.
C4_ThrowsOutsideProvider ==
    last.op = "useTnForm" =>
        IF mounted THEN last.ret = "returned" /\ last.bundle = value.ref
        ELSE last.ret = "throw"

\* C5: the form a handler call publishes has the field at the value given,
\* touched, and as valid as the field's validators find that value; the
\* handler returns that validity.
C5_WriteValidateTouchPublish ==
    [][ last'.op = "createFormFieldChangeHandler" =>
          \A n \in Written(last') :
             /\ value'.form = form'.id
             /\ form'.field[n].value = last'.writes[n]
             /\ form'.field[n].isTouched
             /\ form'.field[n].isValid = FieldVerdict(form, n, last'.writes[n])
             /\ last'.ret = Bool(form'.field[n].isValid) ]_vars

\* C5 witness: a handler call found a non-empty value invalid (the
\* form-level validator under confirm) and returned false.
C5_Witness ==
    /\ last.op = "createFormFieldChangeHandler"
    /\ last.writes["confirm"] = "a"
    /\ last.ret = "false"
    /\ form.field["confirm"].isTouched
    /\ ~form.field["confirm"].isValid

\* C6: the form an operation made by replication has every form-level
\* validator of the provider attached.
C6_ValidatorsPersist ==
    (mounted /\ last.replicas >= 1) => props.flv \subseteq form.flv

\* C6 witness: after operations on a top-level field and on a group, the
\* replica holds both validators of the provider.
C6_Witness ==
    /\ mounted
    /\ last.replicas = 1
    /\ props.flv = FieldNames
    /\ form.flv = FieldNames
    /\ form.field["password"].isTouched
    /\ form.groups[0]["name"].isTouched

\* C7: after a group-scoped call that does not miss, the addressed group
\* holds the values given and every other group is as it was.
C7_OnlyAddressedGroupChanges ==
    [][ (last'.op \in GroupOpNames /\ ~Miss(last')) =>
          /\ \A n \in Written(last') :
                form'.groups[last'.idx][n].value = last'.writes[n]
          /\ \A j \in DOMAIN form.groups :
                j # last'.idx => form'.groups[j] = form.groups[j] ]_vars

\* C8: ConvertToFieldTuple yields never for the empty tuple and for a tuple
\* with an element that is not a pair [IFormField<T>, value assignable to T];
\* otherwise the tuple of pairs [IFormField<T_i>, value_i], one per element
\* and in order.
C8_ConvertToFieldTuple ==
    tupleOut.applied =>
        LET r == tupleOut.result
            ok(e) == e.arity = 2 /\ e.isField /\ Assignable(e.second, e.of)
        IN /\ r.never <=> (tupleIn = <<>> \/ \E i \in DOMAIN tupleIn : ~ok(tupleIn[i]))
           /\ ~r.never =>
                /\ Len(r.pairs) = Len(tupleIn)
                /\ \A i \in DOMAIN tupleIn :
                      r.pairs[i] = [field |-> tupleIn[i].of, value |-> tupleIn[i].second]

\* C8 witness: a tuple of MaxTuple well-shaped pairs, one with a literal
\* value type, was converted to a tuple.
C8_Witness ==
    /\ tupleOut.applied
    /\ ~tupleOut.result.never
    /\ Len(tupleIn) = MaxTuple
    /\ \E i \in DOMAIN tupleIn : tupleIn[i].second = "'a'"

\* C9: the form validate publishes shows, for every form-level validator of
\* the provider, the form-level validity of the current values.
C9_ValidateRunsFormLevelValidators ==
    last.op = "validate" =>
        \A n \in props.flv :
            form.field[n].isValid =
               (FieldLevel(n, form.field[n].value)
                   /\ form.field[n].value = form.field[OtherField(n)].value)

\* C10: a render of the provider with the form and the props it had keeps
\* the published bundle (its identity and every operation's).
C10_BundleStable ==
    [][ (last'.op = "render" /\ mounted /\ form' = form
            /\ (props.given => flvRef' = flvRef))
          => value' = value ]_vars

====
